---- MODULE Spec2Model ----
(***************************************************************************)
(* Model of the shift lifecycle service (ShiftsService.claim / cancel) and *)
(* of the top-workplaces reporting script (fetchAllShifts,                 *)
(* fetchAllWorkplaces, getTopWorkplaces).                                  *)
(***************************************************************************)
EXTENDS Integers, Sequences, FiniteSets, TLC

(***************************************************************************)
(* Bounds                                                                  *)
(***************************************************************************)
NumShifts == 1      \* persisted shifts have ids 1..NumShifts
MaxWorker == 1      \* worker ids are 0..MaxWorker
NumProcs == 2       \* concurrent callers of the service
MaxClock == 1       \* new Date() yields a time in 0..MaxClock
MaxHist == 3        \* calls recorded in the log of a sequential execution
MaxPages == 3       \* pages a listing endpoint serves before it runs dry
MaxPageLen == 2     \* items on one page
MaxShards == 2      \* shards 0..MaxShards-1 of /workplaces can hold pages
MaxShardPages == 2  \* pages a shard serves before it runs dry
MaxShardPageLen == 1 \* items on one page of a shard
MaxWorkplaces == 4  \* workplaces handed to the report
MaxShiftRecs == 3   \* shift records handed to the report
MaxTopN == 3        \* result sizes 1..MaxTopN a caller of the report may ask for

\* JavaScript null (workerId and cancelledAt are nullable numbers/dates)
NULL == -1

ShiftIds == 1..NumShifts
\* identifiers a caller may pass: every persisted one and one that is absent
CallIds == 1..(NumShifts + 1)
Workers == 0..MaxWorker
Procs == 1..NumProcs
\* the values new Date() can yield
Times == 0..MaxClock

VARIABLES
    shifts,     \* the shift table: id -> [workerId, cancelledAt]
    pc,         \* per caller: "ready", "claim_update" or "cancel_update"
    call,       \* per caller: the call in flight (op and id kept once it is over)
    result,     \* per caller: outcome of its last completed call
    hist,       \* log of completed calls (sequential executions only)
    source,     \* the /shifts listing endpoint: its responses, page by page
    fpc,        \* position of fetchAllShifts
    page,       \* fetchAllShifts: page
    hasNextPage,\* fetchAllShifts: hasNextPage
    allShifts,  \* fetchAllShifts: allShifts
    requests,   \* the requests issued to /shifts, in order
    returned,   \* the value fetchAllShifts returned
    endless,    \* the /shifts listing never runs dry past its listed pages
    wpc,        \* position of fetchAllWorkplaces
    shard,      \* fetchAllWorkplaces: shard
    wpage,      \* fetchAllWorkplaces: page
    whasNextPage, \* fetchAllWorkplaces: hasNextPage
    shardWorkplacesFetched, \* fetchAllWorkplaces: shardWorkplacesFetched
    allWorkplaces, \* fetchAllWorkplaces: allWorkplaces
    wlog,       \* the requests issued to /workplaces and their answers, in order
    wreturned,  \* the value fetchAllWorkplaces returned
    wendless,   \* every shard of /workplaces has items on its first page
    tpc,        \* position of getTopWorkplaces
    workplaces, \* getTopWorkplaces: workplaces
    shiftRecs,  \* getTopWorkplaces: shifts
    topOut      \* the value getTopWorkplaces returned

svcVars == <<shifts, pc, call, result, hist>>
flatVars == <<source, fpc, page, hasNextPage, allShifts, requests, returned,
              endless>>
shardVars == <<wpc, shard, wpage, whasNextPage, shardWorkplacesFetched,
               allWorkplaces, wlog, wreturned, wendless>>
topVars == <<tpc, workplaces, shiftRecs, topOut>>
scriptVars == <<flatVars, shardVars, topVars>>
vars == <<shifts, pc, call, result, hist,
          source, fpc, page, hasNextPage, allShifts, requests, returned, endless,
          wpc, shard, wpage, whasNextPage, shardWorkplacesFetched,
          allWorkplaces, wlog, wreturned, wendless,
          tpc, workplaces, shiftRecs, topOut>>

(***************************************************************************)
(* ShiftsService                                                           *)
(***************************************************************************)

\* JavaScript truthiness of a nullable number: null and 0 are falsy
Truthy(x) == x # NULL /\ x # 0

\* findUnique as a lookup that falls back to some record when id is absent
findUniqueOrFirst(id) ==
    IF id \in DOMAIN shifts THEN <<shifts[id]>>
    ELSE <<shifts[CHOOSE i \in DOMAIN shifts : TRUE]>>

\* prisma.shift.findUnique({ where: { id } }): <<record>> or <<>> for null
findUnique(id) == IF id \in DOMAIN shifts THEN <<shifts[id]>> ELSE <<>>

\* prisma.shift.update({ where: { id }, data }): sets the fields of data
update(id, data) ==
    [shifts EXCEPT ![id] =
        [f \in DOMAIN @ |-> IF f \in DOMAIN data THEN data[f] ELSE @[f]]]

\* the check of claim: the looked-up shift already has a worker
ClaimRejects(shift) == Truthy(shift.workerId)

\* the check of cancel as a test of the cancellation timestamp instead
CancelRejectsIfStamped(shift) == shift.cancelledAt # NULL

\* the check of cancel: the looked-up shift has no worker
CancelRejects(shift) == ~Truthy(shift.workerId)

\* the fields claim writes, without the reset of cancelledAt
ClaimDataKeepsTimestamp(workerId) == [workerId |-> workerId]

\* the fields claim writes
ClaimData(workerId) == [workerId |-> workerId, cancelledAt |-> NULL]

\* the fields cancel writes
CancelData(now) == [cancelledAt |-> now, workerId |-> NULL]

InFlight == {q \in Procs : pc[q] # "ready"}

\* a call of p completes with outcome r: it returns the record or throws
Finish(p, c, r) ==
    /\ pc' = [pc EXCEPT ![p] = "ready"]
    /\ result' = [result EXCEPT ![p] = r]
    /\ call' = [call EXCEPT ![p] = [c EXCEPT !.seen = <<>>, !.workerId = NULL]]

\* claim, lines 41-47: lookup and the two checks
ClaimLookup(p, id, workerId) ==
    /\ pc[p] = "ready"
    /\ LET shift == findUnique(id)
           c == [op |-> "claim", id |-> id, workerId |-> workerId, seen |-> [x \in DOMAIN shift |-> shift[x].workerId]]
       IN  IF shift = <<>>
           THEN Finish(p, c, "NotFoundException")
           ELSE IF ClaimRejects(shift[1])
           THEN Finish(p, c, "BadRequestException")
           ELSE /\ pc' = [pc EXCEPT ![p] = "claim_update"]
                /\ call' = [call EXCEPT ![p] = c]
                /\ result' = [result EXCEPT ![p] = "none"]
    /\ UNCHANGED shifts

\* claim, lines 49-52: the update
ClaimUpdate(p) ==
    /\ pc[p] = "claim_update"
    /\ shifts' = update(call[p].id, ClaimData(call[p].workerId))
    /\ Finish(p, call[p], "ok")

\* cancel, lines 57-63: lookup and the two checks
CancelLookup(p, id) ==
    /\ pc[p] = "ready"
    /\ LET shift == findUnique(id)
           c == [op |-> "cancel", id |-> id, workerId |-> NULL, seen |-> [x \in DOMAIN shift |-> shift[x].workerId]]
       IN  IF shift = <<>>
           THEN Finish(p, c, "NotFoundException")
           ELSE IF CancelRejects(shift[1])
           THEN Finish(p, c, "BadRequestException")
           ELSE /\ pc' = [pc EXCEPT ![p] = "cancel_update"]
                /\ call' = [call EXCEPT ![p] = c]
                /\ result' = [result EXCEPT ![p] = "none"]
    /\ UNCHANGED shifts

\* cancel, lines 65-71: the update, stamped with new Date()
CancelUpdate(p, now) ==
    /\ pc[p] = "cancel_update"
    /\ shifts' = update(call[p].id, CancelData(now))
    /\ Finish(p, call[p], "ok")

NoCall == [op |-> "none", id |-> 0, workerId |-> NULL, seen |-> <<>>]

InitService ==
    /\ shifts = [id \in ShiftIds |-> [workerId |-> NULL, cancelledAt |-> NULL]]
    /\ pc = [p \in Procs |-> "ready"]
    /\ call = [p \in Procs |-> NoCall]
    /\ result = [p \in Procs |-> "none"]
    /\ hist = <<>>

(***************************************************************************)
(* fetchAllShifts: traversal of the flat /shifts listing                   *)
(***************************************************************************)

\* const limit = 10
limit == 10

\* the item records of page pg that holds n of them: the endpoint lists
\* distinct records, told apart here by page and position
ItemsOf(pg, n) == [i \in 1..n |-> [page |-> pg, pos |-> i]]

\* response.data.data: an array of n item records, or something that is no array
DataVals ==
    {[isArray |-> TRUE, n |-> k] : k \in 0..MaxPageLen}
        \cup {[isArray |-> FALSE, n |-> 0]}

\* response.data.links.next: null, or the link to the next page
NextVals == {"null", "url"}

\* what one request can produce: a response, or an exception inside the try
\* block (transport failure, non-success status, malformed body)
Responses ==
    [status : {"ok"}, data : DataVals, next : NextVals]
        \cup {[status |-> "error", data |-> [isArray |-> FALSE, n |-> 0],
               next |-> "null"]}

\* the answer of the endpoint past its last page: no items, no next link
EndPage ==
    [status |-> "ok", data |-> [isArray |-> TRUE, n |-> 0], next |-> "null"]

\* the answer of an endpoint that never runs dry: a full page and a next link
MorePage ==
    [status |-> "ok", data |-> [isArray |-> TRUE, n |-> MaxPageLen], next |-> "url"]

\* axios.get(`${API_BASE_URL}/shifts`, { params: { page, limit } })
axiosGet(src, pg) ==
    IF pg <= Len(src) THEN src[pg]
    ELSE IF endless THEN MorePage
    ELSE EndPage

\* Array.isArray(response.data.data) ? response.data.data : []
ArrayOrEmpty(pg, d) == IF d.isArray THEN ItemsOf(pg, d.n) ELSE <<>>

\* !!response.data.links.next
ToBoolean(x) == x \notin {"null", "undefined", ""}

InitFlat ==
    /\ source \in UNION {[1..n -> Responses] : n \in 0..MaxPages}
    /\ fpc = "loop"
    /\ page = 1
    /\ hasNextPage = TRUE
    /\ allShifts = <<>>
    /\ requests = <<>>
    /\ returned = <<>>
    /\ endless = FALSE

\* the iteration without the stop on an empty page
ShiftsFetchNoEmptyStop ==
    /\ fpc = "loop"
    /\ hasNextPage
    /\ page <= MaxPages + 1
    /\ requests' = Append(requests, [page |-> page, limit |-> limit])
    /\ LET response == axiosGet(source, page)
           shiftsOfPage == ArrayOrEmpty(page, response.data)
       IN  IF response.status = "error"
           THEN /\ fpc' = "exit"
                /\ UNCHANGED <<page, hasNextPage, allShifts>>
           ELSE /\ allShifts' = allShifts \o shiftsOfPage
                /\ hasNextPage' = ToBoolean(response.next)
                /\ page' = page + 1
                /\ UNCHANGED fpc
    /\ UNCHANGED <<source, returned, endless>>

\* the iteration with the page index advanced by two
ShiftsFetchSkipsPage ==
    /\ fpc = "loop"
    /\ hasNextPage
    /\ page <= MaxPages + 1
    /\ requests' = Append(requests, [page |-> page, limit |-> limit])
    /\ LET response == axiosGet(source, page)
           shiftsOfPage == ArrayOrEmpty(page, response.data)
       IN  IF response.status = "error"
           THEN /\ fpc' = "exit"
                /\ UNCHANGED <<page, hasNextPage, allShifts>>
           ELSE IF Len(shiftsOfPage) = 0
           THEN /\ hasNextPage' = FALSE
                /\ UNCHANGED <<fpc, page, allShifts>>
           ELSE /\ allShifts' = allShifts \o shiftsOfPage
                /\ hasNextPage' = ToBoolean(response.next)
                /\ page' = page + 2
                /\ UNCHANGED fpc
    /\ UNCHANGED <<source, returned, endless>>

\* the iteration with a catch that logs the failure and leaves the loop
ShiftsFetchCatchBreaks ==
    /\ fpc = "loop"
    /\ hasNextPage
    /\ page <= MaxPages + 1
    /\ requests' = Append(requests, [page |-> page, limit |-> limit])
    /\ LET response == axiosGet(source, page)
           shiftsOfPage == ArrayOrEmpty(page, response.data)
       IN  IF response.status = "error"
           THEN /\ hasNextPage' = FALSE
                /\ UNCHANGED <<fpc, page, allShifts>>
           ELSE IF Len(shiftsOfPage) = 0
           THEN /\ hasNextPage' = FALSE
                /\ UNCHANGED <<fpc, page, allShifts>>
           ELSE /\ allShifts' = allShifts \o shiftsOfPage
                /\ hasNextPage' = ToBoolean(response.next)
                /\ page' = page + 1
                /\ UNCHANGED fpc
    /\ UNCHANGED <<source, returned, endless>>

\* one iteration of while (hasNextPage), lines 89-113
ShiftsFetch ==
    /\ fpc = "loop"
    /\ hasNextPage
    /\ page <= MaxPages + 1
    /\ requests' = Append(requests, [page |-> page, limit |-> limit])
    /\ LET response == axiosGet(source, page)
           shiftsOfPage == ArrayOrEmpty(page, response.data)
       IN  IF response.status = "error"
           THEN \* catch: process.exit(1)
                /\ fpc' = "exit"
                /\ UNCHANGED <<page, hasNextPage, allShifts>>
           ELSE IF Len(shiftsOfPage) = 0
           THEN \* hasNextPage = false; break
                /\ hasNextPage' = FALSE
                /\ UNCHANGED <<fpc, page, allShifts>>
           ELSE /\ allShifts' = allShifts \o shiftsOfPage
                /\ hasNextPage' = ToBoolean(response.next)
                /\ page' = page + 1
                /\ UNCHANGED fpc
    /\ UNCHANGED <<source, returned, endless>>

\* the loop is left: return allShifts, line 115
ShiftsReturn ==
    /\ fpc = "loop"
    /\ ~hasNextPage
    /\ returned' = allShifts
    /\ fpc' = "done"
    /\ UNCHANGED <<source, page, hasNextPage, allShifts, requests, endless>>

(***************************************************************************)
(* fetchAllWorkplaces: traversal of the sharded /workplaces listing        *)
(***************************************************************************)

\* const limit = 10 of fetchAllWorkplaces
limitW == 10

\* the workplace records of page pg of shard s that holds n of them, told
\* apart by shard, page and position
WorkplacesOf(s, pg, n) == [i \in 1..n |-> [shard |-> s, page |-> pg, pos |-> i]]

\* response.data.data of /workplaces
WDataVals ==
    {[isArray |-> TRUE, n |-> k] : k \in 0..MaxShardPageLen}
        \cup {[isArray |-> FALSE, n |-> 0]}

\* what one request to /workplaces can produce
WResponses ==
    [status : {"ok"}, data : WDataVals, next : NextVals]
        \cup {[status |-> "error", data |-> [isArray |-> FALSE, n |-> 0],
               next |-> "null"]}

\* the answers that carry at least one workplace
WithItems == {r \in WResponses : r.status = "ok" /\ r.data.isArray /\ r.data.n > 0}

\* axios.get(`${API_BASE_URL}/workplaces`, { params: { page, limit, shard } }):
\* the answers the endpoint can give.  Shards 0..MaxShards-1 answer anything
\* on their pages 1..MaxShardPages and are dry past them and past the last
\* shard.  An endpoint with wendless set never runs out of shards: every
\* shard has one page of workplaces, with or without a next link.
axiosGetW(s, pg) ==
    IF wendless THEN (IF pg = 1 THEN WithItems ELSE {EndPage})
    ELSE IF s < MaxShards /\ pg <= MaxShardPages THEN WResponses
    ELSE {EndPage}

\* Array.isArray(response.data.data) ? response.data.data : []
ArrayOrEmptyW(s, pg, d) == IF d.isArray THEN WorkplacesOf(s, pg, d.n) ELSE <<>>

InitSharded ==
    /\ wpc = "loop"
    /\ shard = 0
    /\ wpage = 1
    /\ whasNextPage = TRUE
    /\ shardWorkplacesFetched = FALSE
    /\ allWorkplaces = <<>>
    /\ wlog = <<>>
    /\ wreturned = <<>>
    /\ wendless = FALSE

\* the iteration with the page stored in place of being appended
WorkplacesFetchOverwrites(response) ==
    /\ wpc = "loop"
    /\ whasNextPage
    /\ shard <= MaxShards
    /\ response \in axiosGetW(shard, wpage)
    /\ wlog' = Append(wlog, [shard |-> shard, page |-> wpage, limit |-> limitW,
                              response |-> response])
    /\ LET wps == ArrayOrEmptyW(shard, wpage, response.data)
       IN  IF response.status = "error"
           THEN /\ wpc' = "exit"
                /\ UNCHANGED <<wpage, whasNextPage, shardWorkplacesFetched,
                               allWorkplaces>>
           ELSE IF Len(wps) = 0
           THEN /\ whasNextPage' = FALSE
                /\ UNCHANGED <<wpc, wpage, shardWorkplacesFetched, allWorkplaces>>
           ELSE /\ allWorkplaces' = wps
                /\ shardWorkplacesFetched' = TRUE
                /\ whasNextPage' = ToBoolean(response.next)
                /\ wpage' = wpage + 1
                /\ UNCHANGED wpc
    /\ UNCHANGED <<shard, wreturned, wendless>>

\* the iteration with the flag following the last page instead of the shard
WorkplacesFetchFlagPerPage(response) ==
    /\ wpc = "loop"
    /\ whasNextPage
    /\ shard <= MaxShards
    /\ response \in axiosGetW(shard, wpage)
    /\ wlog' = Append(wlog, [shard |-> shard, page |-> wpage, limit |-> limitW,
                              response |-> response])
    /\ LET wps == ArrayOrEmptyW(shard, wpage, response.data)
       IN  IF response.status = "error"
           THEN /\ wpc' = "exit"
                /\ UNCHANGED <<wpage, whasNextPage, shardWorkplacesFetched,
                               allWorkplaces>>
           ELSE IF Len(wps) = 0
           THEN /\ whasNextPage' = FALSE
                /\ shardWorkplacesFetched' = FALSE
                /\ UNCHANGED <<wpc, wpage, allWorkplaces>>
           ELSE /\ allWorkplaces' = allWorkplaces \o wps
                /\ shardWorkplacesFetched' = TRUE
                /\ whasNextPage' = ToBoolean(response.next)
                /\ wpage' = wpage + 1
                /\ UNCHANGED wpc
    /\ UNCHANGED <<shard, wreturned, wendless>>

\* one iteration of the inner while (hasNextPage), lines 42-67
WorkplacesFetch(response) ==
    /\ wpc = "loop"
    /\ whasNextPage
    /\ shard <= MaxShards
    /\ response \in axiosGetW(shard, wpage)
    /\ wlog' = Append(wlog, [shard |-> shard, page |-> wpage, limit |-> limitW,
                              response |-> response])
    /\ LET wps == ArrayOrEmptyW(shard, wpage, response.data)
       IN  IF response.status = "error"
           THEN \* catch: process.exit(1)
                /\ wpc' = "exit"
                /\ UNCHANGED <<wpage, whasNextPage, shardWorkplacesFetched,
                               allWorkplaces>>
           ELSE IF Len(wps) = 0
           THEN \* hasNextPage = false; break
                /\ whasNextPage' = FALSE
                /\ UNCHANGED <<wpc, wpage, shardWorkplacesFetched, allWorkplaces>>
           ELSE /\ allWorkplaces' = allWorkplaces \o wps
                /\ shardWorkplacesFetched' = TRUE
                /\ whasNextPage' = ToBoolean(response.next)
                /\ wpage' = wpage + 1
                /\ UNCHANGED wpc
    /\ UNCHANGED <<shard, wreturned, wendless>>

\* the advance to the next shard without the test of the flag
NextShardAlways ==
    /\ wpc = "loop"
    /\ ~whasNextPage
    /\ shard <= MaxShards
    /\ shard' = shard + 1
    /\ wpage' = 1
    /\ whasNextPage' = TRUE
    /\ shardWorkplacesFetched' = FALSE
    /\ UNCHANGED <<wpc, allWorkplaces, wlog, wreturned, wendless>>

\* the inner loop is left after the shard gave workplaces: shard++ and the
\* next round of while (true), lines 69-74 and 38-40
NextShard ==
    /\ wpc = "loop"
    /\ ~whasNextPage
    /\ shardWorkplacesFetched
    /\ shard' = shard + 1
    /\ wpage' = 1
    /\ whasNextPage' = TRUE
    /\ shardWorkplacesFetched' = FALSE
    /\ UNCHANGED <<wpc, allWorkplaces, wlog, wreturned, wendless>>

\* the return taken as soon as the inner loop is left
WorkplacesReturnAfterShard ==
    /\ wpc = "loop"
    /\ ~whasNextPage
    /\ wreturned' = allWorkplaces
    /\ wpc' = "done"
    /\ UNCHANGED <<shard, wpage, whasNextPage, shardWorkplacesFetched,
                   allWorkplaces, wlog, wendless>>

\* the inner loop is left and the shard gave nothing: break, and
\* return allWorkplaces, lines 69-72 and 77
WorkplacesReturn ==
    /\ wpc = "loop"
    /\ ~whasNextPage
    /\ ~shardWorkplacesFetched
    /\ wreturned' = allWorkplaces
    /\ wpc' = "done"
    /\ UNCHANGED <<shard, wpage, whasNextPage, shardWorkplacesFetched,
                   allWorkplaces, wlog, wendless>>

InitShardedIdle ==
    /\ wpc = "off"
    /\ shard = 0
    /\ wpage = 1
    /\ whasNextPage = TRUE
    /\ shardWorkplacesFetched = FALSE
    /\ allWorkplaces = <<>>
    /\ wlog = <<>>
    /\ wreturned = <<>>
    /\ wendless = FALSE

InitTopIdle ==
    /\ tpc = "off"
    /\ workplaces = <<>>
    /\ shiftRecs = <<>>
    /\ topOut = <<>>

InitFlatIdle ==
    /\ source = <<>>
    /\ fpc = "off"
    /\ page = 1
    /\ hasNextPage = TRUE
    /\ allShifts = <<>>
    /\ requests = <<>>
    /\ returned = <<>>
    /\ endless = FALSE

InitF == InitService /\ InitFlat /\ InitShardedIdle /\ InitTopIdle

NextFlat ==
    \/ ShiftsFetch /\ UNCHANGED <<svcVars, shardVars, topVars>>
    \/ ShiftsReturn /\ UNCHANGED <<svcVars, shardVars, topVars>>

SpecFlat == InitF /\ [][NextFlat]_vars

InitW == InitService /\ InitFlatIdle /\ InitSharded /\ InitTopIdle

NextSharded ==
    \/ \E response \in WResponses :
          WorkplacesFetch(response) /\ UNCHANGED <<svcVars, flatVars, topVars>>
    \/ NextShard /\ UNCHANGED <<svcVars, flatVars, topVars>>
    \/ WorkplacesReturn /\ UNCHANGED <<svcVars, flatVars, topVars>>

SpecSharded == InitW /\ [][NextSharded]_vars

(***************************************************************************)
(* getTopWorkplaces, lines 121-146, on the two collected lists             *)
(***************************************************************************)

\* the status of an active workplace, line 126
ActiveStatus == 0

\* the number of entries of the report, line 145
TopN == 3

\* interface Workplace, lines 13-17: the k-th collected workplace has id k-1
\* and name k
WorkplaceLists ==
    UNION {{[i \in 1..n |-> [id |-> i - 1, name |-> i, status |-> st[i]]] :
              st \in [1..n -> {0, 1}]} : n \in 0..MaxWorkplaces}

\* interface Shift, lines 19-22: a reference to a workplace, to no workplace
\* (null or 0) or to a workplace that was not collected
ShiftLists ==
    UNION {[1..n -> [workplaceId : {NULL} \cup (0..MaxWorkplaces)]] :
             n \in 0..MaxShiftRecs}

\* workplaces.filter(wp => wp.status !== 0)
activeWorkplacesInverted(wps) == SelectSeq(wps, LAMBDA wp : wp.status # ActiveStatus)

\* workplaces.filter(wp => wp.status === 0), line 126
activeWorkplaces(wps) == SelectSeq(wps, LAMBDA wp : wp.status = ActiveStatus)

\* the counting without the test of the reference
shiftCountsUntested(shs, k) ==
    [id \in {shs[i].workplaceId : i \in 1..k} |->
        Cardinality({i \in 1..k : shs[i].workplaceId = id})]

\* shifts.forEach(...), lines 128-134, after the first k shifts: the record
\* shiftCounts, with a key for every reference counted so far
RECURSIVE shiftCounts(_, _)
shiftCounts(shs, k) ==
    IF k = 0 THEN [id \in {} |-> 0]
    ELSE LET counts == shiftCounts(shs, k - 1)
             w == shs[k].workplaceId
         IN  IF Truthy(w)
             THEN [id \in DOMAIN counts \cup {w} |->
                     IF id = w
                     THEN (IF w \in DOMAIN counts THEN counts[w] ELSE 0) + 1
                     ELSE counts[id]]
             ELSE counts

\* shiftCounts[wp.id] || 0, line 139
CountOrZero(counts, id) == IF id \in DOMAIN counts THEN counts[id] ELSE 0

\* activeWorkplaces.map(wp => ({ name, shifts })), lines 137-140
workplacesWithShifts(wps, shs) ==
    LET active == activeWorkplaces(wps)
        counts == shiftCounts(shs, Len(shs))
    IN  [i \in 1..Len(active) |->
           [name |-> active[i].name, shifts |-> CountOrZero(counts, active[i].id)]]

\* e put into a list sorted by shifts descending, before the entries of the
\* same count
InsertBeforeEqual(sorted, e) ==
    LET before == SelectSeq(sorted, LAMBDA x : x.shifts > e.shifts)
        after == SelectSeq(sorted, LAMBDA x : x.shifts <= e.shifts)
    IN  before \o <<e>> \o after

\* e put into a list sorted by shifts descending, behind the entries that do
\* not compare below it: b.shifts - a.shifts is 0 for equal counts and the
\* sort keeps such entries in their order
InsertSorted(sorted, e) ==
    LET before == SelectSeq(sorted, LAMBDA x : x.shifts >= e.shifts)
        after == SelectSeq(sorted, LAMBDA x : x.shifts < e.shifts)
    IN  before \o <<e>> \o after

\* workplacesWithShifts.sort((a, b) => b.shifts - a.shifts), line 143, on the
\* first k entries
RECURSIVE SortByShifts(_, _)
SortByShifts(list, k) ==
    IF k = 0 THEN <<>> ELSE InsertSorted(SortByShifts(list, k - 1), list[k])

\* slice(0, 2)
SliceShort(list) ==
    SubSeq(list, 1, IF Len(list) < TopN - 1 THEN Len(list) ELSE TopN - 1)

\* slice(0, 3), line 145
Slice(list) == SubSeq(list, 1, IF Len(list) < TopN THEN Len(list) ELSE TopN)

\* the two lists as the traversals returned them, lines 122-123
InitTop ==
    /\ tpc = "ready"
    /\ workplaces \in WorkplaceLists
    /\ shiftRecs \in ShiftLists
    /\ topOut = <<>>

\* lines 125-145
GetTopWorkplaces ==
    /\ tpc = "ready"
    /\ LET list == workplacesWithShifts(workplaces, shiftRecs)
       IN  topOut' = Slice(SortByShifts(list, Len(list)))
    /\ tpc' = "done"
    /\ UNCHANGED <<workplaces, shiftRecs>>

InitR == InitService /\ InitFlatIdle /\ InitShardedIdle /\ InitTop

NextTop == GetTopWorkplaces /\ UNCHANGED <<svcVars, flatVars, shardVars>>

SpecTop == InitR /\ [][NextTop]_vars

\* fetchAllShifts against any listing, one that never runs dry included
InitFlatAny ==
    /\ source \in UNION {[1..n -> Responses] : n \in 0..MaxPages}
    /\ fpc = "loop"
    /\ page = 1
    /\ hasNextPage = TRUE
    /\ allShifts = <<>>
    /\ requests = <<>>
    /\ returned = <<>>
    /\ endless \in BOOLEAN

\* fetchAllWorkplaces against any shards, shards that never run out included
InitShardedAny ==
    /\ wpc = "loop"
    /\ shard = 0
    /\ wpage = 1
    /\ whasNextPage = TRUE
    /\ shardWorkplacesFetched = FALSE
    /\ allWorkplaces = <<>>
    /\ wlog = <<>>
    /\ wreturned = <<>>
    /\ wendless \in BOOLEAN

\* one of the two traversals of the script, lines 153 and 154
InitT ==
    /\ InitService
    /\ InitTopIdle
    /\ \/ InitFlatAny /\ InitShardedIdle
       \/ InitFlatIdle /\ InitShardedAny

NextT == NextFlat \/ NextSharded

\* a traversal that can take a step takes one: the script awaits each answer
\* and nothing else runs in the process
SpecTraversals == InitT /\ [][NextT]_vars /\ WF_vars(NextT)

Init == InitService /\ InitFlatIdle /\ InitShardedIdle /\ InitTopIdle

\* callers of the service running concurrently
Next ==
    \/ \E p \in Procs, id \in CallIds, w \in Workers :
          ClaimLookup(p, id, w) /\ UNCHANGED hist /\ UNCHANGED scriptVars
    \/ \E p \in Procs : ClaimUpdate(p) /\ UNCHANGED hist /\ UNCHANGED scriptVars
    \/ \E p \in Procs, id \in CallIds :
          CancelLookup(p, id) /\ UNCHANGED hist /\ UNCHANGED scriptVars
    \/ \E p \in Procs, now \in Times :
          CancelUpdate(p, now) /\ UNCHANGED hist /\ UNCHANGED scriptVars

Spec == Init /\ [][Next]_vars

\* the log of a sequential execution: a completed call and its outcome
Log(p, workerId) ==
    hist' = IF pc'[p] = "ready"
            THEN Append(hist, [op |-> call'[p].op, id |-> call'[p].id,
                               workerId |-> workerId, res |-> result'[p]])
            ELSE hist

\* callers of the service running one call at a time
NextSeq ==
    \/ \E p \in Procs, id \in CallIds, w \in Workers :
          /\ InFlight = {} /\ Len(hist) < MaxHist
          /\ ClaimLookup(p, id, w) /\ Log(p, w) /\ UNCHANGED scriptVars
    \/ \E p \in Procs : ClaimUpdate(p) /\ Log(p, call[p].workerId) /\ UNCHANGED scriptVars
    \/ \E p \in Procs, id \in CallIds :
          /\ InFlight = {} /\ Len(hist) < MaxHist
          /\ CancelLookup(p, id) /\ Log(p, NULL) /\ UNCHANGED scriptVars
    \/ \E p \in Procs, now \in Times :
          CancelUpdate(p, now) /\ Log(p, NULL) /\ UNCHANGED scriptVars

SpecSeq == Init /\ [][NextSeq]_vars

(***************************************************************************)
(* Properties of the shift lifecycle                                       *)
(***************************************************************************)

\* the derived state of a shift record
StateOf(s) ==
    IF s.workerId # NULL THEN "Claimed"
    ELSE IF s.cancelledAt # NULL THEN "Cancelled"
    ELSE "Unclaimed"

\* caller p issues a call in this step (its lookup runs)
Issues(p) ==
    /\ pc[p] = "ready"
    /\ <<pc[p], call[p], result[p]>> # <<pc'[p], call'[p], result'[p]>>

\* caller p completes the update of its call in this step
Completes(p, at) == pc[p] = at /\ pc'[p] = "ready"

\* C1: a claim that looked up an unclaimed shift and reaches its update after
\* a concurrent call has assigned a worker is rejected as a conflict and
\* leaves that assignment in place (so at most one of two racing claims
\* succeeds and the winner's assignment is never overwritten).
C1_ClaimAtomic ==
    [][\A p \in Procs :
          (/\ Completes(p, "claim_update")
           /\ call[p].seen[1] = NULL
           /\ shifts[call[p].id].workerId # NULL)
          => (result'[p] = "BadRequestException" /\ shifts' = shifts)]_vars

\* C2: a cancel that reaches its update after a concurrent cancel has already
\* released the shift is rejected, and a cancel that looked up worker w never
\* clears the assignment of a different worker made after its lookup.
C2_CancelAtomic ==
    [][\A p \in Procs :
          Completes(p, "cancel_update") =>
            LET cur == shifts[call[p].id].workerId
                saw == call[p].seen[1]
            IN  /\ cur = NULL =>
                     (result'[p] = "BadRequestException" /\ shifts' = shifts)
                /\ (cur # NULL /\ cur # saw) =>
                     shifts'[call[p].id].workerId = cur]_vars

\* C3: a claim issued on a shift that has a worker assignment fails with
\* BadRequestException at once and the shift table is left as it was.
C3_ClaimOnClaimedRejected ==
    [][\A p \in Procs :
          (/\ Issues(p)
           /\ call'[p].op = "claim"
           /\ call'[p].id \in DOMAIN shifts
           /\ shifts[call'[p].id].workerId # NULL)
          => (/\ pc'[p] = "ready"
              /\ result'[p] = "BadRequestException"
              /\ shifts' = shifts)]_vars

\* C4: a cancel issued on a shift that has no worker assignment fails with
\* BadRequestException at once and the shift table, cancellation timestamp
\* included, is left as it was.
C4_CancelOnUnclaimedRejected ==
    [][\A p \in Procs :
          (/\ Issues(p)
           /\ call'[p].op = "cancel"
           /\ call'[p].id \in DOMAIN shifts
           /\ shifts[call'[p].id].workerId = NULL)
          => (/\ pc'[p] = "ready"
              /\ result'[p] = "BadRequestException"
              /\ shifts' = shifts)]_vars

\* C4 witness: a cancel was rejected on a shift that had been cancelled before
C4_Witness ==
    \E p \in Procs :
        /\ pc[p] = "ready" /\ call[p].op = "cancel"
        /\ result[p] = "BadRequestException"
        /\ shifts[call[p].id].workerId = NULL
        /\ shifts[call[p].id].cancelledAt # NULL

\* C5: every change of a persisted shift is Unclaimed -> Claimed by a claim,
\* Claimed -> Cancelled by a cancel, or Cancelled -> Claimed by a claim.
C5_OnlyThreeTransitions ==
    [][\A id \in DOMAIN shifts :
          shifts'[id] # shifts[id] =>
            LET from == StateOf(shifts[id])
                to == StateOf(shifts'[id])
            IN  \/ /\ from = "Unclaimed" /\ to = "Claimed"
                   /\ \E p \in Procs : Completes(p, "claim_update")
                \/ /\ from = "Claimed" /\ to = "Cancelled"
                   /\ \E p \in Procs : Completes(p, "cancel_update")
                \/ /\ from = "Cancelled" /\ to = "Claimed"
                   /\ \E p \in Procs : Completes(p, "claim_update")]_vars

\* C6: in a sequential execution, after a successful claim with any worker
\* identifier (0 included) the next call on that shift is rejected if it is
\* a claim and accepted if it is a cancel.
C6_ClaimedIffWorkerPresent ==
    \A i \in 1..(Len(hist) - 1) :
        (/\ hist[i].op = "claim" /\ hist[i].res = "ok"
         /\ hist[i + 1].id = hist[i].id)
        => (/\ hist[i + 1].op = "claim" => hist[i + 1].res = "BadRequestException"
            /\ hist[i + 1].op = "cancel" => hist[i + 1].res = "ok")

\* C7: no shift ever has both a worker assignment and a cancellation
\* timestamp, under any interleaving of claim and cancel calls.
C7_NeverWorkerAndTimestamp ==
    \A id \in DOMAIN shifts :
        ~(shifts[id].workerId # NULL /\ shifts[id].cancelledAt # NULL)

\* C7 witness: a shift is claimed again after a cancel that stamped it
C7_Witness ==
    \E p, q \in Procs :
        /\ pc[p] = "ready" /\ call[p].op = "cancel" /\ result[p] = "ok"
        /\ pc[q] = "ready" /\ call[q].op = "claim" /\ result[q] = "ok"
        /\ call[q].id = call[p].id
        /\ shifts[call[p].id].workerId # NULL

\* C8: claim(id, w), cancel(id), claim(id, w2) run one after another on an
\* unclaimed shift all succeed and leave worker w2 and a null timestamp.
C8_RoundTrip ==
    (/\ Len(hist) = 3
     /\ hist[1].op = "claim" /\ hist[1].id \in DOMAIN shifts
     /\ hist[2].op = "cancel" /\ hist[2].id = hist[1].id
     /\ hist[3].op = "claim" /\ hist[3].id = hist[1].id)
    => (/\ \A i \in 1..3 : hist[i].res = "ok"
        /\ shifts[hist[1].id] = [workerId |-> hist[3].workerId,
                                 cancelledAt |-> NULL])

\* C9: a claim or cancel issued with an identifier that is not in the shift
\* table fails with NotFoundException at once and the table is left as it was.
C9_NotFound ==
    [][\A p \in Procs :
          (Issues(p) /\ call'[p].id \notin DOMAIN shifts)
          => (/\ pc'[p] = "ready"
              /\ result'[p] = "NotFoundException"
              /\ shifts' = shifts
              /\ DOMAIN shifts' = ShiftIds)]_vars

\* C9 witness: both operations have been rejected for an absent identifier
C9_Witness ==
    \E p, q \in Procs :
        /\ call[p].op = "claim" /\ result[p] = "NotFoundException"
        /\ call[q].op = "cancel" /\ result[q] = "NotFoundException"
        /\ call[p].id \notin DOMAIN shifts /\ call[q].id \notin DOMAIN shifts
        /\ \E id \in DOMAIN shifts : shifts[id].workerId # NULL

(***************************************************************************)
(* Properties of the flat traversal                                        *)
(***************************************************************************)

\* the items of page k of a source, as the endpoint lists them
PageItems(src, k) == ArrayOrEmpty(k, axiosGet(src, k).data)

\* page k ends the listing: it is empty or carries no next link
IsLastPage(src, k) ==
    PageItems(src, k) = <<>> \/ axiosGet(src, k).next = "null"

\* the first page that is empty or carries no next link
FirstLastPage(src) ==
    CHOOSE k \in 1..(Len(src) + 1) :
        IsLastPage(src, k) /\ \A j \in 1..(k - 1) : ~IsLastPage(src, j)

\* the items of pages 1..k, in page order
RECURSIVE ConcatPages(_, _)
ConcatPages(src, k) ==
    IF k = 0 THEN <<>> ELSE ConcatPages(src, k - 1) \o PageItems(src, k)

\* C10: what fetchAllShifts returns is the concatenation, in page order from
\* page 1, of the items of every page up to and including the first page
\* that is empty or has no next link.
C10_FlatResult ==
    fpc = "done" => returned = ConcatPages(source, FirstLastPage(source))

\* C10 witness: the traversal returned the first page only, because page 2
\* was empty although it reported a next link and page 3 had items
C10_Witness ==
    /\ fpc = "done"
    /\ Len(source) = 3
    /\ Len(PageItems(source, 1)) = 2 /\ source[1].next = "url"
    /\ PageItems(source, 2) = <<>> /\ source[2].next = "url"
    /\ PageItems(source, 3) # <<>>
    /\ returned = PageItems(source, 1)

\* C11: the pages requested from /shifts are 1, 2, ..., in that order and
\* each once, never past the first page k that is empty or has no next link,
\* and when the traversal returns exactly pages 1..k have been requested.
C11_FlatRequests ==
    /\ \A i \in 1..Len(requests) :
          requests[i] = [page |-> i, limit |-> limit]
    /\ Len(requests) <= FirstLastPage(source)
    /\ fpc = "done" => Len(requests) = FirstLastPage(source)

\* C11 witness: a two-page listing (page 2 without a next link) was
\* traversed with exactly two requests, although a third page has items
C11_Witness ==
    /\ fpc = "done"
    /\ Len(source) = 3
    /\ Len(PageItems(source, 1)) = 2 /\ source[1].next = "url"
    /\ Len(PageItems(source, 2)) = 1 /\ source[2].next = "null"
    /\ PageItems(source, 3) # <<>>
    /\ requests = <<[page |-> 1, limit |-> limit], [page |-> 2, limit |-> limit]>>
    /\ Len(returned) = 3

(***************************************************************************)
(* Properties of the sharded traversal                                     *)
(***************************************************************************)

\* the workplaces a logged answer carried
LogItems(e) == ArrayOrEmptyW(e.shard, e.page, e.response.data)

\* a logged answer that is the empty first page of a shard
EmptyFirstPage(e) ==
    e.page = 1 /\ e.response.status = "ok" /\ LogItems(e) = <<>>

\* a logged answer that ends a shard after the shard gave workplaces: an
\* empty later page, or a page with workplaces and no next link
EndsShardOnly(e) ==
    /\ e.response.status = "ok"
    /\ \/ e.page > 1 /\ LogItems(e) = <<>>
       \/ LogItems(e) # <<>> /\ e.response.next = "null"

\* the workplaces of the first k logged answers, in the order of the log
RECURSIVE FlattenLog(_, _)
FlattenLog(log, k) ==
    IF k = 0 THEN <<>> ELSE FlattenLog(log, k - 1) \o LogItems(log[k])

\* C12: the first request is for shard 0; each further request stays in the
\* shard or moves to the next shard index; no request follows the empty
\* first page of a shard, and the traversal returns only on such a page.
C12_ShardsContiguous ==
    /\ wlog # <<>> => wlog[1].shard = 0
    /\ \A i \in 1..(Len(wlog) - 1) :
          /\ wlog[i + 1].shard \in {wlog[i].shard, wlog[i].shard + 1}
          /\ ~EmptyFirstPage(wlog[i])
    /\ wpc = "done" => (wlog # <<>> /\ EmptyFirstPage(wlog[Len(wlog)]))

\* C12 witness: the traversal is over after two shards with workplaces and
\* the empty first page of the third
C12_Witness ==
    /\ wpc = "done"
    /\ wlog[Len(wlog)].shard = 2
    /\ EmptyFirstPage(wlog[Len(wlog)])
    /\ \E i, j \in 1..Len(wlog) :
          /\ wlog[i].shard = 0 /\ LogItems(wlog[i]) # <<>>
          /\ wlog[j].shard = 1 /\ LogItems(wlog[j]) # <<>>

C19_TailEndsShardOnly ==
    \A i \in 1..Len(wlog) :
        /\ EndsShardOnly(wlog[i]) =>
              IF i < Len(wlog)
              THEN wlog[i + 1].shard = wlog[i].shard + 1 /\ wlog[i + 1].page = 1
              ELSE wpc = "loop"
        /\ (i < Len(wlog) /\ ~EndsShardOnly(wlog[i])) =>
              (wlog[i + 1].shard = wlog[i].shard
               /\ wlog[i + 1].page = wlog[i].page + 1)

\* C19 witness: shard 0 gave workplaces on pages 1 and 2 and an empty page 3,
\* shard 1 an empty page 1; these four requests were issued and no other
C19_Witness ==
    /\ wpc = "done"
    /\ Len(wlog) = 4
    /\ \A i \in 1..3 : wlog[i].shard = 0 /\ wlog[i].page = i
    /\ LogItems(wlog[1]) # <<>> /\ LogItems(wlog[2]) # <<>>
    /\ LogItems(wlog[3]) = <<>>
    /\ wlog[4].shard = 1 /\ wlog[4].page = 1 /\ LogItems(wlog[4]) = <<>>
    /\ shard = 1

(***************************************************************************)
(* Properties of both traversals                                           *)
(***************************************************************************)

\* a step in which a request fails leaves the process exited with nothing
\* returned, and an exited process takes no further step
AbortStep ==
    /\ (requests' # requests /\ axiosGet(source, page).status = "error") =>
          (fpc' = "exit" /\ returned' = <<>>)
    /\ (wlog' # wlog /\ wlog'[Len(wlog')].response.status = "error") =>
          (wpc' = "exit" /\ wreturned' = <<>>)
    /\ (fpc = "exit") => UNCHANGED flatVars
    /\ (wpc = "exit") => UNCHANGED shardVars

FlatStops ==
    /\ \E k \in 1..(Len(source) + 1) : IsLastPage(source, k)
    /\ axiosGet(source, FirstLastPage(source)).status = "ok"

\* every page of the listing has items and a next link
FlatNeverStops ==
    /\ endless
    /\ \A k \in 1..Len(source) : ~IsLastPage(source, k)

\* C20: a traversal of a source that runs out ends: the flat traversal
\* returns when the listing has a last page and no request fails, the
\* sharded traversal returns or exits on a failed request.  A traversal of
\* a source that never runs out never returns: the flat one keeps asking
\* for the next page, the sharded one for the next shard.
C20_Termination ==
    /\ (fpc = "loop" /\ FlatStops) ~> (fpc = "done")
    /\ (wpc = "loop" /\ ~wendless) ~> (wpc \in {"done", "exit"})
    /\ [](wpc = "exit" => wlog[Len(wlog)].response.status = "error")
    /\ [](FlatNeverStops => (fpc = "loop" /\ hasNextPage))
    /\ [](wendless => wpc # "done")

\* C20 witness: every shard asked had workplaces on its first page and the
\* traversal, past the last shard index of the model, is still running
C20_Witness ==
    /\ wendless
    /\ wpc = "loop"
    /\ shard > MaxShards
    /\ \A i \in 1..Len(wlog) : wlog[i].response.status = "ok"

(***************************************************************************)
(* Properties of the report                                                *)
(***************************************************************************)

\* the collected workplace an entry of the report names
InputOf(entry) == CHOOSE j \in 1..Len(workplaces) : workplaces[j].name = entry.name

\* the positions of the active workplaces in the collected list
ActivePositions == {j \in 1..Len(workplaces) : workplaces[j].status = 0}

\* the shift records that refer to workplace id: a null or zero reference
\* refers to no workplace
ShiftsOf(id) ==
    {k \in 1..Len(shiftRecs) :
        /\ shiftRecs[k].workplaceId = id
        /\ shiftRecs[k].workplaceId # NULL
        /\ shiftRecs[k].workplaceId # 0}

\* entry a of the report ranks before the active workplace at position j:
\* more shifts, or as many and earlier in the collected list
RanksBefore(a, j) ==
    LET c == Cardinality(ShiftsOf(workplaces[j].id))
    IN  a.shifts > c \/ (a.shifts = c /\ InputOf(a) < j)

\* C15: every entry of the report names a collected workplace of status 0,
\* and no collected workplace of another status is named.
C15_OnlyActive ==
    tpc = "done" =>
        /\ \A i \in 1..Len(topOut) :
              \E j \in ActivePositions : workplaces[j].name = topOut[i].name
        /\ \A j \in 1..Len(workplaces) :
              workplaces[j].status # 0 =>
                 \A i \in 1..Len(topOut) : topOut[i].name # workplaces[j].name

\* C15 witness: a report with entries, from a list whose second workplace
\* is not active and has a shift
C15_Witness ==
    /\ tpc = "done"
    /\ Len(workplaces) = 4
    /\ workplaces[2].status = 1
    /\ workplaces[3].status = 0
    /\ \E k \in 1..Len(shiftRecs) : shiftRecs[k].workplaceId = workplaces[2].id
    /\ Len(topOut) >= 1

\* C16: the counts of the report never increase from one entry to the next,
\* and of two entries with the same count the one collected first comes
\* first.
C16_SortedStable ==
    tpc = "done" =>
        \A i, j \in 1..Len(topOut) :
            i < j =>
               /\ topOut[i].shifts >= topOut[j].shifts
               /\ topOut[i].shifts = topOut[j].shifts =>
                     InputOf(topOut[i]) < InputOf(topOut[j])

\* C16 witness: two workplaces of one shift each lead in the order
\* collected, and a workplace collected before both follows with no shift
C16_Witness ==
    /\ tpc = "done"
    /\ Len(topOut) = 3
    /\ topOut[1].shifts = 1
    /\ topOut[2].shifts = 1
    /\ topOut[3].shifts = 0
    /\ InputOf(topOut[1]) < InputOf(topOut[2])
    /\ InputOf(topOut[3]) < InputOf(topOut[1])

\* C17: the count of an entry is the number of shift records that refer to
\* the id of its workplace, a null or zero reference referring to none, and
\* an active workplace without such a record is in the report with count 0
\* whenever the report has room for every active workplace.
C17_Counts ==
    tpc = "done" =>
        /\ \A i \in 1..Len(topOut) :
              topOut[i].shifts =
                 Cardinality(ShiftsOf(workplaces[InputOf(topOut[i])].id))
        /\ Cardinality(ActivePositions) <= TopN =>
              \A j \in ActivePositions :
                 \E i \in 1..Len(topOut) :
                    /\ topOut[i].name = workplaces[j].name
                    /\ ShiftsOf(workplaces[j].id) = {} => topOut[i].shifts = 0

\* C17 witness: one record is null, one refers to 0 and one to workplace 1;
\* the active workplaces 0 and 1 are reported with 0 and 1
C17_Witness ==
    /\ tpc = "done"
    /\ \E k \in 1..Len(shiftRecs) : shiftRecs[k].workplaceId = NULL
    /\ \E k \in 1..Len(shiftRecs) : shiftRecs[k].workplaceId = 0
    /\ \E k \in 1..Len(shiftRecs) : shiftRecs[k].workplaceId = 1
    /\ topOut = <<[name |-> 2, shifts |-> 1], [name |-> 1, shifts |-> 0]>>

\* the smaller of two numbers
Min(a, b) == IF a < b THEN a ELSE b

\* C18 as stated: whatever size n the caller asks for, the report has
\* min(n, number of active workplaces) entries.
C18_LengthFollowsN ==
    tpc = "done" =>
        \A n \in 1..MaxTopN : Len(topOut) = Min(n, Cardinality(ActivePositions))

\* C18 amended: the report has min(3, number of active workplaces) entries,
\* every active workplace left out ranks behind every entry, and the report
\* of no workplaces or no active workplace is empty.
C18_FirstThree ==
    tpc = "done" =>
        /\ Len(topOut) = Min(3, Cardinality(ActivePositions))
        /\ \A j \in ActivePositions :
              (\A i \in 1..Len(topOut) : topOut[i].name # workplaces[j].name) =>
                 \A i \in 1..Len(topOut) : RanksBefore(topOut[i], j)
        /\ ActivePositions = {} => topOut = <<>>

\* C18 witness: four active workplaces, three entries; the workplace left
\* out was collected second and has no shift, as the first one, which is
\* the last entry
C18_Witness ==
    /\ tpc = "done"
    /\ Cardinality(ActivePositions) = 4
    /\ Len(topOut) = 3
    /\ \A i \in 1..3 : topOut[i].name # 2
    /\ topOut[1].shifts >= 1
    /\ topOut[3] = [name |-> 1, shifts |-> 0]

====
